---- MODULE Spec2Model ----
(***************************************************************************)
(* Model of transformClaudeRequestToOpenAI, the Claude Messages ->         *)
(* OpenAI Chat Completions request transformer (src/unnamed/part_001).     *)
(*                                                                         *)
(* One call of the function is run as a state machine: the arguments are   *)
(* drawn in Init, every action is one statement group of the function      *)
(* (validation, base output, system folding, one step of the messages      *)
(* loop per content block, the trailing flush, the tools, tool_choice, the  *)
(* scalar parameters, the return).                                         *)
(* A throw ends the run in pc = "thrown" with no return value.             *)
(* SpecTwice makes the same call a second time, under any NODE_ENV.        *)
(*                                                                         *)
(* SpecRepo is the user repository (src/src/repository/user.ts): callers   *)
(* that interleave at every await, the memoized check of the quota         *)
(* columns, and the users table with soft deletion.                        *)
(***************************************************************************)
EXTENDS Integers, Sequences, FiniteSets, TLC

(***************************************************************************)
(* JavaScript values.  A value whose static type is a union, or that the   *)
(* code tests with typeof / Array.isArray / truthiness, is carried in a    *)
(* tagged record; an absent object property is a field that is not in the  *)
(* DOMAIN of the record.                                                   *)
(***************************************************************************)
JsUndef == [t |-> "undefined"]
JsNull == [t |-> "null"]
JsStr(s) == [t |-> "string", s |-> s]
JsNum(n) == [t |-> "number", n |-> n]
JsBool(b) == [t |-> "boolean", b |-> b]
JsArr(a) == [t |-> "array", a |-> a]
JsObj(o) == [t |-> "object", o |-> o]

\* typeof v
TypeOf(v) ==
    IF v.t \in {"array", "null"} THEN "object" ELSE v.t

\* Array.isArray(v)
IsArray(v) == v.t = "array"

\* ToBoolean(v): what `!v`, `v ? a : b`, `a || b` and `if (v)` test
Truthy(v) ==
    CASE v.t = "undefined" -> FALSE
      [] v.t = "null" -> FALSE
      [] v.t = "string" -> v.s # ""
      [] v.t = "number" -> v.n # 0
      [] v.t = "boolean" -> v.b
      [] OTHER -> TRUE

\* obj.f for a value of any type: undefined unless obj is an object holding f
Get(v, f) ==
    IF v.t = "object" /\ f \in DOMAIN v.o THEN v.o[f] ELSE JsUndef

\* r.f || d for an optional string property of a block
StrOr(r, f, d) ==
    IF f \in DOMAIN r /\ r[f] # "" THEN r[f] ELSE d

\* !r.f for an optional string property of a block
Missing(r, f) == ~(f \in DOMAIN r /\ r[f] # "")

RECURSIVE JoinStrings(_)
\* Array.prototype.join("") of an array of strings
JoinStrings(ss) ==
    IF ss = <<>> THEN "" ELSE Head(ss) \o JoinStrings(Tail(ss))

RECURSIVE JoinWith(_, _)
JoinWith(ss, sep) ==
    IF ss = <<>> THEN ""
    ELSE IF Len(ss) = 1 THEN Head(ss)
    ELSE Head(ss) \o sep \o JoinWith(Tail(ss), sep)

\* JSON.stringify of an object of string properties, kept as an ordered
\* sequence of <<key, value>> pairs
JSONStringify(obj) ==
    "{" \o JoinWith([i \in 1..Len(obj) |->
                       "\"" \o obj[i][1] \o "\":\"" \o obj[i][2] \o "\""], ",")
        \o "}"

(***************************************************************************)
(* The pure parts of transformClaudeRequestToOpenAI.                       *)
(***************************************************************************)
ErrModel == "Model parameter is required and must be a string"
ErrRequest == "Request parameter is required and must be an object"
ErrMessages == "Messages array is required and must not be empty"
ErrToolUse == "tool_use must have both id and name"
ErrToolResult == "tool_result must have tool_use_id"

\* The messages check without the length test
MessagesInvalidNoEmptyCheck(req) == ~IsArray(Get(req, "messages"))

\* !Array.isArray(req.messages) || req.messages.length === 0
MessagesInvalid(req) ==
    \/ ~IsArray(Get(req, "messages"))
    \/ Len(Get(req, "messages").a) = 0

\* The three parameter checks in the order the code makes them: the message
\* of the first one that fails, "" when all pass
ValidationError(m, req) ==
    IF ~Truthy(m) \/ TypeOf(m) # "string" THEN ErrModel
    ELSE IF ~Truthy(req) \/ TypeOf(req) # "object" THEN ErrRequest
    ELSE IF MessagesInvalid(req) THEN ErrMessages
    ELSE ""

\* req.max_tokens === 0 || req._isCountTokens
IsCountTokensValue(req) ==
    IF Get(req, "max_tokens") = JsNum(0) THEN JsBool(TRUE)
    ELSE Get(req, "_isCountTokens")

\* stream taken from the argument alone
OutputStreamIgnoringProbe(isCT, streamArg) == streamArg

\* isCountTokens ? false : stream
OutputStream(isCT, streamArg) ==
    IF Truthy(isCT) THEN FALSE ELSE streamArg

\* systemText with the segments joined by newlines
SystemTextNewlines(system) ==
    IF system.t = "string" THEN system.s
    ELSE IF IsArray(system)
         THEN JoinWith([i \in 1..Len(system.a) |->
                          IF system.a[i].type = "text"
                          THEN StrOr(system.a[i], "text", "") ELSE ""], "\n")
    ELSE ""

\* systemText of a truthy req.system
SystemText(system) ==
    IF system.t = "string" THEN system.s
    ELSE IF IsArray(system)
         THEN JoinStrings([i \in 1..Len(system.a) |->
                             IF system.a[i].type = "text"
                             THEN StrOr(system.a[i], "text", "") ELSE ""])
    ELSE ""

\* The part pushed for a text block
TextPartOut(part) == [type |-> "text", text |-> StrOr(part, "text", "")]

\* imageUrl without the test for empty base64 data
ImageUrlOfAnyData(source) ==
    IF source.type = "base64"
    THEN "data:" \o StrOr(source, "media_type", "application/octet-stream")
                 \o ";base64," \o StrOr(source, "data", "")
    ELSE IF source.type = "url" THEN StrOr(source, "url", "")
    ELSE ""

\* imageUrl of an image block that has a source; "" when it does not resolve
ImageUrl(source) ==
    IF source.type = "base64"
    THEN IF StrOr(source, "data", "") = "" THEN ""
         ELSE "data:" \o StrOr(source, "media_type", "application/octet-stream")
                      \o ";base64," \o source.data
    ELSE IF source.type = "url" THEN StrOr(source, "url", "")
    ELSE ""

\* The part pushed for an image block whose url resolved
ImagePartOut(url) ==
    [type |-> "image_url", image_url |-> [url |-> url, detail |-> "auto"]]

\* contentParts.unshift(p)
PushPartFront(parts, p) == <<p>> \o parts

\* contentParts.push(p)
PushPart(parts, p) == Append(parts, p)

\* The flushed message with the role of the tool_use message
FlushTurnAsAssistant(role, parts) ==
    [role |-> "assistant", content |-> JsArr(parts)]

\* { role, content: contentParts.slice() }
FlushTurn(role, parts) == [role |-> role, content |-> JsArr(parts)]

ToolUseInvalidIdOnly(part) == Missing(part, "id")

\* !part.id || !part.name
ToolUseInvalid(part) == Missing(part, "id") \/ Missing(part, "name")

\* !part.tool_use_id
ToolResultInvalid(part) == Missing(part, "tool_use_id")

\* The tool_use message with String(JSON.stringify(part.input)), no || {}
ToolCallTurnNoDefault(part) ==
    [role |-> "assistant", content |-> JsNull,
     tool_calls |-> << [id |-> part.id, type |-> "function",
                        function |-> [name |-> part.name,
                                      arguments |->
                                        IF "input" \in DOMAIN part
                                        THEN JSONStringify(part.input)
                                        ELSE "undefined"]] >>]

\* The assistant message pushed for a tool_use block
ToolCallTurn(part) ==
    [role |-> "assistant", content |-> JsNull,
     tool_calls |-> << [id |-> part.id, type |-> "function",
                        function |-> [name |-> part.name,
                                      arguments |->
                                        JSONStringify(IF "input" \in DOMAIN part
                                                      THEN part.input
                                                      ELSE <<>>)]] >>]

\* String(v) of an item or content that is not an array
StringOf(v) ==
    CASE v.t = "string" -> v.s
      [] v.t = "object" -> "[object Object]"
      [] v.t = "null" -> "null"
      [] v.t = "boolean" -> IF v.b THEN "true" ELSE "false"
      [] OTHER -> "undefined"

\* The callback of toolResultContent.map
ToolResultItemText(item) ==
    IF item.t = "object" /\ "text" \in DOMAIN item.o THEN item.o.text
    ELSE StringOf(item)

\* outputStr with the items joined by newlines
ToolResultTextLines(part) ==
    LET c == IF "content" \in DOMAIN part THEN part.content ELSE JsUndef
    IN IF c.t = "string" THEN c.s
       ELSE IF IsArray(c)
            THEN JoinWith([i \in 1..Len(c.a) |-> ToolResultItemText(c.a[i])], "\n")
       ELSE IF c # JsUndef THEN StringOf(c)
       ELSE ""

\* outputStr of a tool_result block
ToolResultText(part) ==
    LET c == IF "content" \in DOMAIN part THEN part.content ELSE JsUndef
    IN IF c.t = "string" THEN c.s
       ELSE IF IsArray(c)
            THEN JoinStrings([i \in 1..Len(c.a) |-> ToolResultItemText(c.a[i])])
       ELSE IF c # JsUndef THEN StringOf(c)
       ELSE ""

\* The tool message pushed for a tool_result block
ToolResultTurn(part) ==
    [role |-> "tool", content |-> JsStr(ToolResultText(part)),
     tool_call_id |-> part.tool_use_id]

\* max_tokens copied as it is
MaxTokensVerbatim(isCT, mt) == mt

\* output.max_tokens for a req.max_tokens that is not undefined
MaxTokensOut(isCT, mt) ==
    IF Truthy(isCT) /\ mt = JsNum(0) THEN JsNum(1) ELSE mt

\* A tool that is never the web search built-in
NeverBuiltinTool(tool) == FALSE

\* tool.type === "web_search_20250305"
IsBuiltinTool(tool) ==
    "type" \in DOMAIN tool /\ tool.type = "web_search_20250305"

\* openAITool of a tool that is not skipped
ConvertTool(tool) ==
    LET fn == [name |-> StrOr(tool, "name", ""),
               parameters |-> IF "input_schema" \in DOMAIN tool
                              THEN tool.input_schema ELSE JsObj(<<>>)]
    IN [type |-> "function",
        function |-> IF ~Missing(tool, "description")
                     THEN fn @@ [description |-> tool.description]
                     ELSE fn]

RECURSIVE ConvertTools(_)
\* output.tools after the loop over req.tools
ConvertTools(tools) ==
    IF tools = <<>> THEN <<>>
    ELSE IF IsBuiltinTool(Head(tools)) THEN ConvertTools(Tail(tools))
    ELSE <<ConvertTool(Head(tools))>> \o ConvertTools(Tail(tools))

\* tool_choice with "any" passed on as "any"
ToolChoiceOutAnyKept(tc) ==
    IF ~Truthy(tc) THEN JsUndef
    ELSE IF tc.t = "string" THEN tc
    ELSE IF tc.t = "object"
    THEN LET ty == IF "type" \in DOMAIN tc.o THEN tc.o.type ELSE ""
         IN CASE ty = "auto" -> JsStr("auto")
              [] ty = "any" -> JsStr("any")
              [] ty = "tool" ->
                    IF ~Missing(tc.o, "name")
                    THEN JsObj([type |-> "function",
                                function |-> [name |-> tc.o.name]])
                    ELSE JsUndef
              [] OTHER -> JsUndef
    ELSE JsUndef

\* output.tool_choice for req.tool_choice, JsUndef when it is not set
ToolChoiceOut(tc) ==
    IF ~Truthy(tc) THEN JsUndef
    ELSE IF tc.t = "string" THEN tc
    ELSE IF tc.t = "object"
    THEN LET ty == IF "type" \in DOMAIN tc.o THEN tc.o.type ELSE ""
         IN CASE ty = "auto" -> JsStr("auto")
              [] ty = "any" -> JsStr("required")
              [] ty = "tool" ->
                    IF ~Missing(tc.o, "name")
                    THEN JsObj([type |-> "function",
                                function |-> [name |-> tc.o.name]])
                    ELSE JsUndef
              [] OTHER -> JsUndef
    ELSE JsUndef

\* obj with property f set to v
WithField(obj, f, v) ==
    [k \in DOMAIN obj \cup {f} |-> IF k = f THEN v ELSE obj[k]]
\* The values of process.env.NODE_ENV
NodeEnvs == {"development", "production"}

\* if (process.env.NODE_ENV === "development") logger.debug(msg)
DevLog(env, log, msg) == IF env = "development" THEN Append(log, msg) ELSE log

\* max_tokens forwarded only where the debug message is logged
MaxTokensStepInDevelopment(env, isCT, mt, out, log) ==
    IF mt = JsUndef
    THEN [output |-> out, log |-> DevLog(env, log, "No max_tokens specified in request")]
    ELSE IF Truthy(isCT) /\ mt = JsNum(0)
    THEN [output |-> WithField(out, "max_tokens", MaxTokensOut(isCT, mt)), log |-> log]
    ELSE [output |-> IF env = "development"
                     THEN WithField(out, "max_tokens", MaxTokensOut(isCT, mt))
                     ELSE out,
          log |-> DevLog(env, log, "Forwarding max_tokens")]

\* The max_tokens block: the output and the development log after it
MaxTokensStep(env, isCT, mt, out, log) ==
    IF mt = JsUndef
    THEN [output |-> out, log |-> DevLog(env, log, "No max_tokens specified in request")]
    ELSE IF Truthy(isCT) /\ mt = JsNum(0)
    THEN [output |-> WithField(out, "max_tokens", MaxTokensOut(isCT, mt)), log |-> log]
    ELSE [output |-> WithField(out, "max_tokens", MaxTokensOut(isCT, mt)),
          log |-> DevLog(env, log, "Forwarding max_tokens")]


(***************************************************************************)
(* The arguments of the call.                                              *)
(***************************************************************************)
MaxBlocks == 3
MaxMsgs == 3

RECURSIVE SeqsUpTo(_, _)
\* The sequences over S of length at most n
SeqsUpTo(S, n) ==
    IF n = 0 THEN {<<>>}
    ELSE LET shorter == SeqsUpTo(S, n - 1)
         IN shorter \cup {Append(q, x) : q \in shorter, x \in S}

TextA == [type |-> "text", text |-> "a"]
TextB == [type |-> "text", text |-> "b"]
TextNone == [type |-> "text"]
ImagePng ==
    [type |-> "image",
     source |-> [type |-> "base64", media_type |-> "image/png", data |-> "AAAA"]]
ImageNoData == [type |-> "image", source |-> [type |-> "base64", data |-> ""]]
ImageNoMediaType ==
    [type |-> "image", source |-> [type |-> "base64", data |-> "BBBB"]]
ImageUrlBlock ==
    [type |-> "image", source |-> [type |-> "url", url |-> "https://x/i.png"]]
ImageEmptyUrl == [type |-> "image", source |-> [type |-> "url", url |-> ""]]
ImageNoUrl == [type |-> "image", source |-> [type |-> "url"]]
ImageFileSource == [type |-> "image", source |-> [type |-> "file"]]
ImageNoSource == [type |-> "image"]
ToolUseSearch ==
    [type |-> "tool_use", id |-> "t1", name |-> "search",
     input |-> << <<"q", "x">> >>]
ToolUseNoInput == [type |-> "tool_use", id |-> "t2", name |-> "ping"]
ToolUseNoName == [type |-> "tool_use", id |-> "t3"]
ToolUseNoId == [type |-> "tool_use", name |-> "search"]
ToolResult42 ==
    [type |-> "tool_result", tool_use_id |-> "t1", content |-> JsStr("42")]
ToolResultItems ==
    [type |-> "tool_result", tool_use_id |-> "t2",
     content |-> JsArr(<<JsObj([type |-> "text", text |-> "x"]),
                         JsObj([type |-> "text", text |-> "y"])>>)]
ToolResultMixed ==
    [type |-> "tool_result", tool_use_id |-> "t2",
     content |-> JsArr(<<JsObj([type |-> "text", text |-> "x"]),
                         JsObj([type |-> "image"]),
                         JsStr("z")>>)]
ToolResultNoContent == [type |-> "tool_result", tool_use_id |-> "t1"]
ToolResultObject ==
    [type |-> "tool_result", tool_use_id |-> "t1",
     content |-> JsObj([ok |-> "yes"])]
ToolResultNoId == [type |-> "tool_result", content |-> JsStr("42")]
Thinking == [type |-> "thinking"]

\* The blocks the long block sequences are built from
CoreBlocks ==
    {TextA, TextB, ImagePng, ImageNoData, ToolUseSearch, ToolUseNoInput,
     ToolUseNoName, ToolResult42, ToolResultItems, ToolResultNoId, Thinking}

\* The other shapes of a block, tried alone and next to a text block
VariantBlocks ==
    {TextNone, ImageNoMediaType, ImageUrlBlock, ImageEmptyUrl, ImageNoUrl,
     ImageFileSource, ImageNoSource, ToolUseNoId, ToolResultMixed,
     ToolResultNoContent, ToolResultObject}

Roles == {"user", "assistant"}

Turn(role, content) == [role |-> role, content |-> content]

\* Turns with a content of up to MaxBlocks core blocks
CoreTurns ==
    {Turn(r, JsArr(bs)) : r \in Roles, bs \in SeqsUpTo(CoreBlocks, MaxBlocks)}

VariantTurns ==
    {Turn("user", JsArr(bs)) :
        bs \in UNION {{<<v>>, <<TextA, v>>, <<v, TextA>>} : v \in VariantBlocks}}

\* The turns the multi-turn conversations are built from
SampleTurns ==
    {Turn("user", JsStr("hi")),
     Turn("assistant", JsStr("")),
     [role |-> "user"],
     Turn("user", JsArr(<<TextA, ImagePng>>)),
     Turn("assistant", JsArr(<<TextB, ToolUseSearch>>)),
     Turn("user", JsArr(<<ToolResult42, TextA>>)),
     Turn("assistant", JsArr(<<ToolUseNoName>>)),
     Turn("user", JsArr(<<TextA, ToolResultNoId>>))}

Conversations == SeqsUpTo(SampleTurns, MaxMsgs) \ {<<>>}

Call(m, req, s) == [model |-> m, request |-> req, stream |-> s]

Messages(turns) == JsObj([messages |-> JsArr(turns)])

\* Calls that differ in the message list only
MessageCalls ==
    {Call(JsStr("gpt-4o"), Messages(<<t>>), TRUE) : t \in CoreTurns \cup VariantTurns}
    \cup {Call(JsStr("gpt-4o"), Messages(ts), FALSE) : ts \in Conversations}

ModelArgs == {JsUndef, JsNull, JsStr(""), JsNum(4), JsStr("gpt-4o")}

RequestArgs ==
    {JsUndef, JsNull, JsNum(7), JsStr("{}"), JsArr(<<>>),
     JsObj([system |-> JsStr("S")]),
     JsObj([messages |-> JsStr("hi")]),
     JsObj([messages |-> JsObj([role |-> "user"])]),
     JsObj([messages |-> JsArr(<<>>)]),
     Messages(<<Turn("user", JsStr("hi"))>>),
     Messages(<<Turn("assistant", JsArr(<<TextA, ToolUseNoId>>))>>)}

\* Calls that differ in what the parameter validation looks at
ValidationCalls ==
    {Call(m, req, TRUE) : m \in ModelArgs, req \in RequestArgs}

SystemArgs ==
    {JsStr(""), JsStr("S"), JsArr(<<>>),
     JsArr(<<[type |-> "text", text |-> "A"], [type |-> "text", text |-> "B"]>>),
     JsArr(<<[type |-> "text", text |-> ""]>>),
     JsArr(<<[type |-> "text"], [type |-> "cache", text |-> "Z"]>>),
     JsArr(<<[type |-> "text", text |-> "A"], [type |-> "cache", text |-> "Z"],
             [type |-> "text", text |-> ""], [type |-> "text", text |-> "B"]>>)}

SystemTurns ==
    {<<Turn("user", JsStr("hi"))>>,
     <<Turn("user", JsArr(<<TextA, ToolUseSearch>>))>>,
     <<Turn("user", JsArr(<<Thinking>>))>>,
     <<[role |-> "user"], Turn("assistant", JsArr(<<ImageNoData>>))>>}

\* Calls that differ in req.system
SystemCalls ==
    {Call(JsStr("gpt-4o"), JsObj([messages |-> JsArr(ts), system |-> sys]), FALSE) :
        ts \in SystemTurns, sys \in SystemArgs}

\* An object with the properties of the set fs, each taken from vals
Optional(fs, vals) == UNION {[S -> vals] : S \in SUBSET fs}

MaxTokensArgs == {JsNum(0), JsNum(5)}
CountFlagArgs == {JsBool(TRUE), JsBool(FALSE)}
NumberArgs == {JsNum(0), JsNum(1)}

\* Calls that differ in the scalar parameters and the stream argument
ParamCalls ==
    {Call(JsStr("gpt-4o"),
          JsObj([messages |-> JsArr(<<Turn("user", JsStr("hi"))>>)]
                   @@ mt @@ cf @@ nums),
          s) :
        mt \in Optional({"max_tokens"}, MaxTokensArgs),
        cf \in Optional({"_isCountTokens"}, CountFlagArgs),
        nums \in Optional({"temperature", "top_p"}, NumberArgs),
        s \in BOOLEAN}

MaxTools == 3

WebSearchTool == [type |-> "web_search_20250305", name |-> "web_search"]
SearchTool ==
    [name |-> "search", description |-> "Search the web",
     input_schema |-> JsObj([type |-> "object"])]
PingTool == [name |-> "ping", input_schema |-> JsObj([type |-> "object"])]
BareTool == [name |-> "bare", description |-> "", type |-> "custom"]

ToolDefs == {WebSearchTool, SearchTool, PingTool, BareTool}

ToolsArgs == {JsArr(ts) : ts \in SeqsUpTo(ToolDefs, MaxTools)}

ToolChoiceArgs ==
    {JsStr("auto"), JsStr("none"), JsStr(""),
     JsObj([type |-> "auto"]), JsObj([type |-> "any"]),
     JsObj([type |-> "tool", name |-> "search"]),
     JsObj([type |-> "tool"]), JsObj([type |-> "tool", name |-> ""]),
     JsObj([type |-> "none"]), JsObj([name |-> "search"])}

\* Calls that differ in req.tools
ToolsCalls ==
    {Call(JsStr("gpt-4o"),
          JsObj([messages |-> JsArr(<<Turn("user", JsStr("hi"))>>), tools |-> ts]),
          FALSE) : ts \in ToolsArgs}

\* Calls that differ in req.tool_choice
ToolChoiceCalls ==
    {Call(JsStr("gpt-4o"),
          JsObj([messages |-> JsArr(<<Turn("user", JsStr("hi"))>>)] @@ ts @@ tc),
          FALSE) :
        ts \in Optional({"tools"}, {JsArr(<<SearchTool>>)}),
        tc \in Optional({"tool_choice"}, ToolChoiceArgs)}

Calls ==
    MessageCalls \cup ValidationCalls \cup SystemCalls \cup ParamCalls
        \cup ToolsCalls \cup ToolChoiceCalls

(***************************************************************************)
(* The user repository (src/src/repository/user.ts) and toUser            *)
(* (src/unnamed/part_000).  Of a users row the model keeps id, name,      *)
(* role, updatedAt, deletedAt and the four quota columns.  A numeric      *)
(* column holds the decimal string the driver returns, an integer column  *)
(* a number, and either may hold null.                                    *)
(***************************************************************************)
USER_QUOTA_COLUMNS ==
    <<"limit_5h_usd", "limit_weekly_usd", "limit_monthly_usd",
      "limit_concurrent_sessions">>

\* The properties of a user that are backed by USER_QUOTA_COLUMNS, in the
\* same order
QuotaFields ==
    <<"limit5hUsd", "limitWeeklyUsd", "limitMonthlyUsd", "limitConcurrentSessions">>

\* The quota properties stored as numeric, written with toString() and read
\* with parseFloat
UsdFields == {"limit5hUsd", "limitWeeklyUsd", "limitMonthlyUsd"}

\* r.f, undefined when r has no property f
Field(r, f) == IF f \in DOMAIN r THEN r[f] ELSE JsUndef

Digits == <<"0", "1", "2", "3", "4", "5", "6", "7", "8", "9">>

\* Number.prototype.toString of a one-digit amount
NumToString(n) == Digits[n + 1]

\* parseFloat of the decimal string of a one-digit amount
ParseFloat(s) == CHOOSE n \in 0..9 : Digits[n + 1] = s

\* v?.toString()
ToStringOpt(v) == IF v = JsUndef THEN JsUndef ELSE JsStr(NumToString(v.n))

\* v ?? null
OrNull(v) == IF v \in {JsUndef, JsNull} THEN JsNull ELSE v

\* A check that starts although one is in flight
StartsCheckWhileInFlight(available, checking) == available = JsNull

\* userQuotaColumnsAvailable === null && !checkingUserQuotaColumns: the
\* call of ensureUserQuotaColumnsAvailability that issues the query
StartsCheck(available, checking) == available = JsNull /\ checking = 0

\* count === USER_QUOTA_COLUMNS.length
AllColumnsFound(count) == count = Len(USER_QUOTA_COLUMNS)

\* The quota properties as a set
QuotaFieldSet == {QuotaFields[i] : i \in 1..Len(QuotaFields)}

\* The column behind a quota property
ColumnOf(f) ==
    USER_QUOTA_COLUMNS[CHOOSE i \in 1..Len(QuotaFields) : QuotaFields[i] = f]

\* baseSelection of buildUserSelection: property |-> column
baseSelection ==
    [id |-> "id", name |-> "name", role |-> "role", updatedAt |-> "updated_at",
     deletedAt |-> "deleted_at"]

\* The selection that reads the real columns whatever the check found
buildUserSelectionOfColumns(includeQuotaColumns) ==
    baseSelection @@ [f \in QuotaFieldSet |-> ColumnOf(f)]

\* buildUserSelection: for each property the column it is read from, "NULL"
\* for the literals NULL::numeric and NULL::integer
buildUserSelection(includeQuotaColumns) ==
    baseSelection
    @@ [f \in QuotaFieldSet |-> IF includeQuotaColumns THEN ColumnOf(f) ELSE "NULL"]

\* buildInsertUserData: the values handed to insert; a property whose value
\* is undefined takes the column default
buildInsertUserData(includeQuotaColumns, userData) ==
    LET baseData == [name |-> Field(userData, "name")]
        quota ==
            [f \in QuotaFieldSet |->
                IF f \in UsdFields THEN ToStringOpt(Field(userData, f))
                ELSE OrNull(Field(userData, f))]
    IN IF includeQuotaColumns THEN baseData @@ quota ELSE baseData

\* buildUpdateUserData, date being the new Date() it takes
buildUpdateUserData(includeQuotaColumns, userData, date) ==
    LET supplied(fs) == {f \in fs : Field(userData, f) # JsUndef}
        base == [f \in supplied({"name"}) |-> userData[f]]
        quota ==
            [f \in supplied(QuotaFieldSet) |->
                IF f \in UsdFields THEN ToStringOpt(userData[f])
                ELSE OrNull(userData[f])]
    IN [updatedAt |-> JsNum(date)]
       @@ base
       @@ (IF includeQuotaColumns THEN quota ELSE <<>>)

\* toUser
toUser(dbUser) ==
    [f \in DOMAIN dbUser |->
        IF f = "role" THEN (IF dbUser[f] # "" THEN dbUser[f] ELSE "user")
        ELSE IF f \in UsdFields
        THEN (IF Truthy(dbUser[f]) THEN JsNum(ParseFloat(dbUser[f].s)) ELSE JsNull)
        ELSE IF f = "limitConcurrentSessions" THEN OrNull(dbUser[f])
        ELSE dbUser[f]]

\* A row test that takes a deleted row for a live one
NotDeletedOrDeleted(row) == TRUE

\* isNull(users.deletedAt)
NotDeleted(row) == row.deletedAt = JsNull

\* The quota columns a statement names, in the values it writes and in the
\* selection it returns
ColumnsNamed(statement) ==
    {ColumnOf(f) : f \in (DOMAIN statement.data) \cap QuotaFieldSet}
    \cup ({statement.selection[f] :
               f \in (DOMAIN statement.selection) \cap QuotaFieldSet} \ {"NULL"})

\* The row as the selection returns it
Selected(row, selection) ==
    [f \in DOMAIN selection |-> IF selection[f] = "NULL" THEN JsNull ELSE row[f]]

\* The row insert adds: id from the sequence, the column defaults, and the
\* values of data that are not undefined
InsertedRow(table, data, clock) ==
    LET defaults ==
            [id |-> Len(table) + 1, name |-> JsNull, role |-> "user",
             updatedAt |-> JsNum(clock), deletedAt |-> JsNull,
             limit5hUsd |-> JsNull, limitWeeklyUsd |-> JsNull,
             limitMonthlyUsd |-> JsNull, limitConcurrentSessions |-> JsNull]
    IN [f \in DOMAIN defaults |->
          IF Field(data, f) # JsUndef THEN data[f] ELSE defaults[f]]

\* The row after update ... set(data)
UpdatedRow(row, data) ==
    [f \in DOMAIN row |-> IF f \in DOMAIN data THEN data[f] ELSE row[f]]

\* where id = :id and deleted_at is null
Matches(row, id) == row.id = id /\ NotDeleted(row)

\* CASE WHEN role = 'admin' THEN 0 ELSE 1 END, id: the table is kept in id
\* order
Ordered(table) ==
    LET IsAdmin(row) == row.role = "admin"
        IsOther(row) == row.role # "admin"
    IN SelectSeq(table, IsAdmin) \o SelectSeq(table, IsOther)

\* limit :limit offset :offset
Page(rows, limit, offset) ==
    SubSeq(rows, offset + 1, IF offset + limit < Len(rows) THEN offset + limit
                             ELSE Len(rows))

\* What the database does with a statement: the table after it, the rows it
\* returns, and whether it fails because it names a column the table lacks
Executed(table, statement, columns, clock) ==
    LET Live(row) == NotDeleted(row)
        Hit(row) == Matches(row, statement.id)
        Out(rows) == [i \in 1..Len(rows) |-> Selected(rows[i], statement.selection)]
    IN IF ~(ColumnsNamed(statement) \subseteq columns)
       THEN [table |-> table, rows |-> <<>>, failed |-> TRUE]
       ELSE CASE statement.kind = "insert" ->
                   LET row == InsertedRow(table, statement.data, clock)
                   IN [table |-> Append(table, row), rows |-> Out(<<row>>),
                       failed |-> FALSE]
              [] statement.kind = "select" ->
                   [table |-> table,
                    rows |-> Out(Page(Ordered(SelectSeq(table, Live)),
                                      statement.limit, statement.offset)),
                    failed |-> FALSE]
              [] statement.kind = "selectById" ->
                   [table |-> table, rows |-> Out(SelectSeq(table, Hit)),
                    failed |-> FALSE]
              [] statement.kind = "update" ->
                   LET after == [i \in 1..Len(table) |->
                                   IF Hit(table[i])
                                   THEN UpdatedRow(table[i], statement.data)
                                   ELSE table[i]]
                       hits == {i \in 1..Len(table) : Hit(table[i])}
                       Changed(row) == row.id \in hits
                   IN [table |-> after, rows |-> Out(SelectSeq(after, Changed)),
                       failed |-> FALSE]

\* The statement an operation sends, date being the new Date() it takes
Statement(operation, includeQuotaColumns, date) ==
    CASE operation.name = "createUser" ->
            [kind |-> "insert", id |-> 0,
             data |-> buildInsertUserData(includeQuotaColumns, operation.userData),
             selection |-> buildUserSelection(includeQuotaColumns)]
      [] operation.name = "findUserList" ->
            [kind |-> "select", id |-> 0, data |-> <<>>,
             selection |-> buildUserSelection(includeQuotaColumns),
             limit |-> operation.limit, offset |-> operation.offset]
      [] operation.name = "findUserById"
         \/ (operation.name = "updateUser" /\ DOMAIN operation.userData = {}) ->
            [kind |-> "selectById", id |-> operation.id, data |-> <<>>,
             selection |-> buildUserSelection(includeQuotaColumns)]
      [] operation.name = "updateUser" /\ DOMAIN operation.userData # {} ->
            [kind |-> "update", id |-> operation.id,
             data |-> buildUpdateUserData(includeQuotaColumns, operation.userData,
                                          date),
             selection |-> buildUserSelection(includeQuotaColumns)]
      [] operation.name = "deleteUser" ->
            [kind |-> "update", id |-> operation.id,
             data |-> [deletedAt |-> JsNum(date)],
             selection |-> [id |-> "id"]]

\* Whether building the statement takes a new Date()
TakesDate(operation) ==
    \/ operation.name = "deleteUser"
    \/ operation.name = "updateUser" /\ DOMAIN operation.userData # {}

\* What the operation returns for the outcome of its statement: a rejection
\* when the statement failed
Returned(operation, outcome) ==
    IF outcome.failed THEN [kind |-> "rejected"]
    ELSE CASE operation.name = "createUser" ->
                [kind |-> "user", user |-> toUser(outcome.rows[1])]
           [] operation.name = "findUserList" ->
                [kind |-> "users",
                 users |-> [i \in 1..Len(outcome.rows) |-> toUser(outcome.rows[i])]]
           [] operation.name \in {"findUserById", "updateUser"} ->
                IF outcome.rows = <<>> THEN [kind |-> "null"]
                ELSE [kind |-> "user", user |-> toUser(outcome.rows[1])]
           [] operation.name = "deleteUser" ->
                [kind |-> "boolean", value |-> Len(outcome.rows) > 0]

(***************************************************************************)
(* The calls made on the repository.                                       *)
(***************************************************************************)
MaxCalls == 2

\* The chains of asynchronous calls that run in the one process
Callers == {"a", "b"}

\* The sets of quota columns the users table may have: none before the
\* migration, all four after it, two when it was applied in part
ColumnSets ==
    {{}, {"limit_5h_usd", "limit_weekly_usd"},
     {USER_QUOTA_COLUMNS[i] : i \in 1..Len(USER_QUOTA_COLUMNS)}}

\* Rows that exist when the process starts
SeedUser ==
    [id |-> 1, name |-> JsStr("ann"), role |-> "user", updatedAt |-> JsNum(0),
     deletedAt |-> JsNull, limit5hUsd |-> JsNull, limitWeeklyUsd |-> JsNull,
     limitMonthlyUsd |-> JsNull, limitConcurrentSessions |-> JsNull]

SeedAdmin(columns) ==
    LET full == USER_QUOTA_COLUMNS[1] \in columns /\ USER_QUOTA_COLUMNS[4] \in columns
    IN [id |-> 2, name |-> JsStr("root"), role |-> "admin", updatedAt |-> JsNum(0),
        deletedAt |-> JsNull,
        limit5hUsd |-> IF full THEN JsStr("5") ELSE JsNull,
        limitWeeklyUsd |-> JsNull, limitMonthlyUsd |-> JsNull,
        limitConcurrentSessions |-> IF full THEN JsNum(2) ELSE JsNull]

SeedTables(columns) == {<<>>, <<SeedUser>>, <<SeedUser, SeedAdmin(columns)>>}

\* The ids the calls name
UserIds == {1, 2}

CreateUserDatas ==
    <<[name |-> JsStr("bob")],
      [name |-> JsStr("cy"), limit5hUsd |-> JsNum(5), limitWeeklyUsd |-> JsNum(0),
       limitConcurrentSessions |-> JsNum(2)]>>

\* {} , a name, and quota fields
UpdateUserDatas ==
    <<<<>>,
      [name |-> JsStr("dee")],
      [limit5hUsd |-> JsNum(7), limitConcurrentSessions |-> JsNull]>>

\* limit and offset: the defaults, and the second page of pages of one
Pages == {[limit |-> 50, offset |-> 0], [limit |-> 1, offset |-> 1]}

(***************************************************************************)
(* The call as a state machine.                                            *)
(*   modelArg, request, stream   the arguments (never changed)             *)
(*   pc                          the statement group that runs next        *)
(*   isCountTokens, output       the function's locals                     *)
(*   idx                         index of the current message (from 1)     *)
(*   pidx                        index of the current block (from 1)       *)
(*   contentParts, hasToolUse, hasToolResult   locals of one message       *)
(*   errorMsg                    message of the Error thrown, "" if none   *)
(*   returnValue                 the value returned, JsUndef if none       *)
(*   origin                      for each output message, the input it was *)
(*                               pushed for: msg is the message index (0   *)
(*                               for req.system), parts the block indices  *)
(*   partsOrigin                 the block index of each pending part      *)
(***************************************************************************)
VARIABLES modelArg, request, stream, pc, isCountTokens, output, idx, pidx,
          contentParts, hasToolUse, hasToolResult, errorMsg, returnValue,
          origin, partsOrigin,
          nodeEnv, debugLog, run, firstOutcome, firstLog,
          userQuotaColumnsAvailable, checkingUserQuotaColumns, checks,
          quotaColumns, users, now, caller, callsMade, deleted

args == <<modelArg, request, stream>>
locals == <<contentParts, hasToolUse, hasToolResult, partsOrigin>>
\* process.env.NODE_ENV, and the record of an earlier run of the same call
environment == <<nodeEnv, run, firstOutcome, firstLog>>
\* The state of the user repository
repository == <<userQuotaColumnsAvailable, checkingUserQuotaColumns, checks,
                quotaColumns, users, now, caller, callsMade, deleted>>
\* The state of a call of the transformer
transform == <<modelArg, request, stream, pc, isCountTokens, output, idx, pidx,
               contentParts, hasToolUse, hasToolResult, errorMsg, returnValue,
               origin, partsOrigin, nodeEnv, debugLog, run, firstOutcome, firstLog>>
vars == <<modelArg, request, stream, pc, isCountTokens, output, idx, pidx,
          contentParts, hasToolUse, hasToolResult, errorMsg, returnValue,
          origin, partsOrigin, nodeEnv, debugLog, run, firstOutcome, firstLog,
          userQuotaColumnsAvailable, checkingUserQuotaColumns, checks,
          quotaColumns, users, now, caller, callsMade, deleted>>

\* The state on entry to the function
Entered ==
    /\ pc = "validate"
    /\ isCountTokens = JsUndef
    /\ output = JsUndef
    /\ idx = 1
    /\ pidx = 1
    /\ contentParts = <<>>
    /\ hasToolUse = FALSE
    /\ hasToolResult = FALSE
    /\ errorMsg = ""
    /\ returnValue = JsUndef
    /\ origin = <<>>
    /\ partsOrigin = <<>>
    /\ debugLog = <<>>

\* The repository while no call is made on it: the transformer never
\* touches it
RepositoryUnused ==
    /\ userQuotaColumnsAvailable = JsNull
    /\ checkingUserQuotaColumns = 0
    /\ checks = <<>>
    /\ quotaColumns = {}
    /\ users = <<>>
    /\ now = 1
    /\ caller = [p \in {} |-> 0]
    /\ callsMade = 0
    /\ deleted = {}

\* No call of the transformer is in progress
NoCall ==
    /\ modelArg = JsUndef
    /\ request = JsUndef
    /\ stream = FALSE
    /\ nodeEnv = "production"
    /\ run = 1
    /\ firstOutcome = JsUndef
    /\ firstLog = <<>>
    /\ isCountTokens = JsUndef
    /\ output = JsUndef
    /\ idx = 1
    /\ pidx = 1
    /\ contentParts = <<>>
    /\ hasToolUse = FALSE
    /\ hasToolResult = FALSE
    /\ errorMsg = ""
    /\ returnValue = JsUndef
    /\ origin = <<>>
    /\ partsOrigin = <<>>
    /\ debugLog = <<>>
    /\ pc = "none"

\* One call out of calls, made under any NODE_ENV
InitCall(calls) ==
    /\ \E c \in calls :
          /\ modelArg = c.model
          /\ request = c.request
          /\ stream = c.stream
    /\ nodeEnv \in NodeEnvs
    /\ run = 1
    /\ firstOutcome = JsUndef
    /\ firstLog = <<>>
    /\ Entered
    /\ RepositoryUnused

Init == InitCall(Calls)

\* req.messages, once validation has passed
ReqMessages == Get(request, "messages").a
\* message, role, content and part of the current loop iteration
Message == ReqMessages[idx]
Role == Message.role
Content == IF "content" \in DOMAIN Message THEN Message.content ELSE JsUndef
Part == Content.a[pidx]

\* The error recorded and the output built so far returned instead
ThrowReturningPartial(msg) ==
    /\ pc' = "returned"
    /\ errorMsg' = msg
    /\ returnValue' = output

\* throw new Error(msg)
Throw(msg) ==
    /\ pc' = "thrown"
    /\ errorMsg' = msg
    /\ UNCHANGED returnValue

\* output.messages.push(m), pushed for the input o
PushMessages(ms, os) ==
    /\ output' = [output EXCEPT !.messages = @ \o ms]
    /\ origin' = origin \o os

\* The for statement of the messages loop moves to the next message
NextMessage ==
    /\ idx' = idx + 1
    /\ pc' = IF idx + 1 > Len(ReqMessages) THEN "tools" ELSE "message"

\* The for statement of the block loop moves to the next block
NextPart ==
    /\ pidx' = pidx + 1
    /\ pc' = IF pidx + 1 > Len(Content.a) THEN "flush" ELSE "part"

\* Parameter validation
ValidateParams ==
    /\ pc = "validate"
    /\ IF ValidationError(modelArg, request) # ""
       THEN Throw(ValidationError(modelArg, request))
       ELSE pc' = "base" /\ UNCHANGED <<errorMsg, returnValue>>
    /\ UNCHANGED <<repository, args, environment, debugLog, isCountTokens, output, idx, pidx, locals, origin>>

\* isCountTokens and the base output object
BuildBase ==
    /\ pc = "base"
    /\ isCountTokens' = IsCountTokensValue(request)
    /\ output' = [model |-> modelArg.s,
                  messages |-> <<>>,
                  stream |-> OutputStream(IsCountTokensValue(request), stream)]
    /\ pc' = "system"
    /\ UNCHANGED <<repository, args, environment, debugLog, idx, pidx, locals, errorMsg, returnValue, origin>>

\* 1. req.system becomes the first message
FoldSystem ==
    /\ pc = "system"
    /\ LET system == Get(request, "system")
       IN IF Truthy(system) /\ SystemText(system) # ""
          THEN PushMessages(<<[role |-> "system",
                               content |-> JsStr(SystemText(system))]>>,
                            <<[msg |-> 0, parts |-> <<>>]>>)
          ELSE UNCHANGED <<output, origin>>
    /\ pc' = IF Len(ReqMessages) = 0 THEN "tools" ELSE "message"
    /\ UNCHANGED <<repository, args, environment, debugLog, isCountTokens, idx, pidx, locals, errorMsg, returnValue>>

\* 2. a message whose content is a string
StringContent ==
    /\ pc = "message"
    /\ TypeOf(Content) = "string"
    /\ PushMessages(<<[role |-> Role, content |-> Content]>>,
                    <<[msg |-> idx, parts |-> <<>>]>>)
    /\ NextMessage
    /\ UNCHANGED <<repository, args, environment, debugLog, isCountTokens, pidx, locals, errorMsg, returnValue>>

\* 2. a message whose content is an array: the locals of its block loop
BeginArrayContent ==
    /\ pc = "message"
    /\ IsArray(Content)
    /\ contentParts' = <<>>
    /\ partsOrigin' = <<>>
    /\ hasToolUse' = FALSE
    /\ hasToolResult' = FALSE
    /\ pidx' = 1
    /\ pc' = IF Len(Content.a) = 0 THEN "flush" ELSE "part"
    /\ UNCHANGED <<repository, args, environment, debugLog, isCountTokens, output, idx, errorMsg, returnValue, origin>>

\* 2. a message whose content is neither: nothing is pushed
SkipContent ==
    /\ pc = "message"
    /\ TypeOf(Content) # "string"
    /\ ~IsArray(Content)
    /\ NextMessage
    /\ UNCHANGED <<repository, args, environment, debugLog, isCountTokens, output, pidx, locals, errorMsg,
                   returnValue, origin>>

\* case "text"
TextPart ==
    /\ pc = "part"
    /\ Part.type = "text"
    /\ contentParts' = PushPart(contentParts, TextPartOut(Part))
    /\ partsOrigin' = Append(partsOrigin, pidx)
    /\ NextPart
    /\ UNCHANGED <<repository, args, environment, debugLog, isCountTokens, output, idx, hasToolUse, hasToolResult,
                   errorMsg, returnValue, origin>>

\* case "image"
ImagePart ==
    /\ pc = "part"
    /\ Part.type = "image"
    /\ LET url == IF "source" \in DOMAIN Part THEN ImageUrl(Part.source) ELSE ""
       IN IF url # ""
          THEN /\ contentParts' = PushPart(contentParts, ImagePartOut(url))
               /\ partsOrigin' = Append(partsOrigin, pidx)
               /\ debugLog' = DevLog(nodeEnv, debugLog, "Converted image content")
          ELSE UNCHANGED <<contentParts, partsOrigin, debugLog>>
    /\ NextPart
    /\ UNCHANGED <<repository, args, environment, isCountTokens, output, idx, hasToolUse, hasToolResult,
                   errorMsg, returnValue, origin>>

\* The pending parts, pushed as a message of their own before a tool message
FlushBefore(toolTurn) ==
    IF Len(contentParts) > 0
    THEN PushMessages(<<FlushTurn(Role, contentParts), toolTurn>>,
                      <<[msg |-> idx, parts |-> partsOrigin],
                        [msg |-> idx, parts |-> <<pidx>>]>>)
    ELSE PushMessages(<<toolTurn>>, <<[msg |-> idx, parts |-> <<pidx>>]>>)

\* case "tool_use"
ToolUsePart ==
    /\ pc = "part"
    /\ Part.type = "tool_use"
    /\ hasToolUse' = TRUE
    /\ IF ToolUseInvalid(Part)
       THEN /\ Throw(ErrToolUse)
            /\ UNCHANGED <<output, origin, contentParts, partsOrigin, pidx, debugLog>>
       ELSE /\ FlushBefore(ToolCallTurn(Part))
            /\ debugLog' = DevLog(nodeEnv, debugLog, "Converted tool_use to tool_calls")
            /\ contentParts' = <<>>
            /\ partsOrigin' = <<>>
            /\ NextPart
            /\ UNCHANGED <<errorMsg, returnValue>>
    /\ UNCHANGED <<repository, args, environment, isCountTokens, idx, hasToolResult>>

\* case "tool_result"
ToolResultPart ==
    /\ pc = "part"
    /\ Part.type = "tool_result"
    /\ hasToolResult' = TRUE
    /\ IF ToolResultInvalid(Part)
       THEN /\ Throw(ErrToolResult)
            /\ UNCHANGED <<output, origin, contentParts, partsOrigin, pidx, debugLog>>
       ELSE /\ FlushBefore(ToolResultTurn(Part))
            /\ debugLog' = DevLog(nodeEnv, debugLog,
                                  "Converted tool_result to tool message")
            /\ contentParts' = <<>>
            /\ partsOrigin' = <<>>
            /\ NextPart
            /\ UNCHANGED <<errorMsg, returnValue>>
    /\ UNCHANGED <<repository, args, environment, isCountTokens, idx, hasToolUse>>

\* default: a block of any other type is skipped
UnknownPart ==
    /\ pc = "part"
    /\ Part.type \notin {"text", "image", "tool_use", "tool_result"}
    /\ NextPart
    /\ UNCHANGED <<repository, args, environment, debugLog, isCountTokens, output, idx, locals, errorMsg,
                   returnValue, origin>>

\* After the block loop: the remaining parts are pushed, unless the message
\* held a tool block
FlushRemaining ==
    /\ pc = "flush"
    /\ IF Len(contentParts) > 0 /\ ~hasToolUse /\ ~hasToolResult
       THEN PushMessages(<<[role |-> Role, content |-> JsArr(contentParts)]>>,
                         <<[msg |-> idx, parts |-> partsOrigin]>>)
       ELSE UNCHANGED <<output, origin>>
    /\ NextMessage
    /\ UNCHANGED <<repository, args, environment, debugLog, isCountTokens, pidx, locals, errorMsg, returnValue>>

\* 3. req.tools becomes output.tools
TransformTools ==
    /\ pc = "tools"
    /\ LET tools == Get(request, "tools")
       IN IF Truthy(tools) /\ IsArray(tools) /\ Len(tools.a) > 0
          THEN output' = WithField(output, "tools", ConvertTools(tools.a))
          ELSE UNCHANGED output
    /\ pc' = "tool_choice"
    /\ UNCHANGED <<repository, args, environment, debugLog, isCountTokens, idx, pidx, locals, errorMsg, returnValue,
                   origin>>

\* 4. req.tool_choice becomes output.tool_choice
TransformToolChoice ==
    /\ pc = "tool_choice"
    /\ LET tc == ToolChoiceOut(Get(request, "tool_choice"))
       IN IF tc # JsUndef
          THEN output' = WithField(output, "tool_choice", tc)
          ELSE UNCHANGED output
    /\ pc' = "params"
    /\ UNCHANGED <<repository, args, environment, debugLog, isCountTokens, idx, pidx, locals, errorMsg, returnValue,
                   origin>>

\* 5. max_tokens, temperature and top_p
PassParams ==
    /\ pc = "params"
    /\ LET mt == Get(request, "max_tokens")
           temperature == Get(request, "temperature")
           top_p == Get(request, "top_p")
           step == MaxTokensStep(nodeEnv, isCountTokens, mt, output, debugLog)
           o1 == step.output
           o2 == IF temperature # JsUndef
                 THEN WithField(o1, "temperature", temperature)
                 ELSE o1
           o3 == IF top_p # JsUndef THEN WithField(o2, "top_p", top_p) ELSE o2
       IN /\ output' = o3
          /\ debugLog' = step.log
    /\ pc' = "return"
    /\ UNCHANGED <<repository, args, environment, isCountTokens, idx, pidx, locals, errorMsg, returnValue,
                   origin>>

\* return output
Return ==
    /\ pc = "return"
    /\ returnValue' = output
    /\ pc' = "returned"
    /\ UNCHANGED <<repository, args, environment, debugLog, isCountTokens, output, idx, pidx, locals, errorMsg, origin>>

Next ==
    \/ ValidateParams
    \/ BuildBase
    \/ FoldSystem
    \/ StringContent
    \/ BeginArrayContent
    \/ SkipContent
    \/ TextPart
    \/ ImagePart
    \/ ToolUsePart
    \/ ToolResultPart
    \/ UnknownPart
    \/ FlushRemaining
    \/ TransformTools
    \/ TransformToolChoice
    \/ PassParams
    \/ Return

Spec == Init /\ [][Next]_vars

\* What a caller observes of a call that has ended
Outcome == [pc |-> pc, error |-> errorMsg, value |-> returnValue]

\* The calls made twice
RepeatCalls ==
    {Call(JsStr("gpt-4o"), Messages(ts), FALSE) : ts \in Conversations}
    \cup {c \in MessageCalls :
             \E t \in VariantTurns : c.request = Messages(<<t>>)}
    \cup ValidationCalls \cup SystemCalls \cup ParamCalls
    \cup ToolsCalls \cup ToolChoiceCalls

\* The call has ended and the same call is made again, under any NODE_ENV;
\* every local of the function is created anew
CallAgain ==
    /\ run = 1
    /\ pc \in {"returned", "thrown"}
    /\ firstOutcome' = Outcome
    /\ firstLog' = debugLog
    /\ run' = 2
    /\ nodeEnv' \in NodeEnvs
    /\ pc' = "validate"
    /\ isCountTokens' = JsUndef
    /\ output' = JsUndef
    /\ idx' = 1
    /\ pidx' = 1
    /\ contentParts' = <<>>
    /\ hasToolUse' = FALSE
    /\ hasToolResult' = FALSE
    /\ errorMsg' = ""
    /\ returnValue' = JsUndef
    /\ origin' = <<>>
    /\ partsOrigin' = <<>>
    /\ debugLog' = <<>>
    /\ UNCHANGED <<repository, args>>

InitTwice == InitCall(RepeatCalls)

NextTwice == Next \/ CallAgain

SpecTwice == InitTwice /\ [][NextTwice]_vars

(***************************************************************************)
(* The repository as a state machine.  Each caller is one chain of         *)
(* asynchronous calls; a step runs from one await to the next, as the     *)
(* event loop runs it, and the database executes one statement at a time.  *)
(*   userQuotaColumnsAvailable, checkingUserQuotaColumns                   *)
(*                 the two module variables; 0 stands for no promise       *)
(*   checks        the promises of the availability check, one for each    *)
(*                 information_schema query issued                         *)
(*   quotaColumns  the quota columns the users table has                   *)
(*   users         the users table, in id order                            *)
(*   now           the clock new Date() and the column defaults read       *)
(*   caller        per caller: where it is, its operation, the promise it  *)
(*                 awaits, its statement, what its last call returned      *)
(*   callsMade     the calls made so far                                   *)
(*   deleted       the ids for which deleteUser has returned true          *)
(***************************************************************************)
Idle ==
    [pc |-> "idle", op |-> [name |-> "none"], awaits |-> 0, include |-> FALSE,
     statement |-> [kind |-> "none"], result |-> [kind |-> "none"]]

InitRepo ==
    /\ NoCall
    /\ userQuotaColumnsAvailable = JsNull
    /\ checkingUserQuotaColumns = 0
    /\ checks = <<>>
    /\ quotaColumns \in ColumnSets
    /\ users \in SeedTables(quotaColumns)
    /\ now = 1
    /\ caller = [p \in Callers |-> Idle]
    /\ callsMade = 0
    /\ deleted = {}

\* const includeQuotaColumns = await ensureUserQuotaColumnsAvailability():
\* the caller runs the function up to its return and waits for the promise
AwaitEnsure(p, operation) ==
    /\ caller[p].pc = "idle"
    /\ callsMade < MaxCalls
    /\ callsMade' = callsMade + 1
    /\ IF userQuotaColumnsAvailable # JsNull
       THEN /\ caller' = [caller EXCEPT ![p] =
                             [Idle EXCEPT !.pc = "awaiting", !.op = operation,
                                          !.include = userQuotaColumnsAvailable.b]]
            /\ UNCHANGED <<checks, checkingUserQuotaColumns>>
       ELSE IF StartsCheck(userQuotaColumnsAvailable, checkingUserQuotaColumns)
       THEN /\ checks' = Append(checks, [state |-> "pending", value |-> FALSE,
                                         threw |-> FALSE])
            /\ checkingUserQuotaColumns' = Len(checks) + 1
            /\ caller' = [caller EXCEPT ![p] =
                             [Idle EXCEPT !.pc = "awaiting", !.op = operation,
                                          !.awaits = Len(checks) + 1]]
       ELSE /\ caller' = [caller EXCEPT ![p] =
                             [Idle EXCEPT !.pc = "awaiting", !.op = operation,
                                          !.awaits = checkingUserQuotaColumns]]
            /\ UNCHANGED <<checks, checkingUserQuotaColumns>>
    /\ UNCHANGED <<transform, userQuotaColumnsAvailable, quotaColumns, users, now,
                   deleted>>

CreateUser(p) ==
    \E i \in 1..Len(CreateUserDatas) :
        AwaitEnsure(p, [name |-> "createUser", userData |-> CreateUserDatas[i]])

FindUserList(p) ==
    \E page \in Pages :
        AwaitEnsure(p, [name |-> "findUserList", limit |-> page.limit,
                        offset |-> page.offset])

FindUserById(p) ==
    \E id \in UserIds : AwaitEnsure(p, [name |-> "findUserById", id |-> id])

\* updateUser; for userData {} it returns findUserById(id), which awaits
\* the check and selects the row
UpdateUser(p) ==
    \E id \in UserIds, i \in 1..Len(UpdateUserDatas) :
        AwaitEnsure(p, [name |-> "updateUser", id |-> id,
                        userData |-> UpdateUserDatas[i]])

\* deleteUser: the statement is sent without the availability check
DeleteUser(p) ==
    \E id \in UserIds :
        LET operation == [name |-> "deleteUser", id |-> id]
        IN /\ caller[p].pc = "idle"
           /\ callsMade < MaxCalls
           /\ callsMade' = callsMade + 1
           /\ caller' = [caller EXCEPT ![p] =
                            [Idle EXCEPT !.pc = "statement", !.op = operation,
                                         !.statement = Statement(operation, FALSE, now)]]
           /\ now' = now + 1
           /\ UNCHANGED <<transform, userQuotaColumnsAvailable,
                          checkingUserQuotaColumns, checks, quotaColumns, users,
                          deleted>>

\* The information_schema query of a check comes back, with the count of the
\* quota columns or with an error, and the check runs to its end: try or
\* catch, then finally
CheckSettles ==
    \E k \in 1..Len(checks), throws \in BOOLEAN :
        /\ checks[k].state = "pending"
        /\ LET available == ~throws /\ AllColumnsFound(Cardinality(quotaColumns))
           IN /\ userQuotaColumnsAvailable' = JsBool(available)
              /\ checks' = [checks EXCEPT ![k] = [state |-> "fulfilled",
                                                  value |-> available,
                                                  threw |-> throws]]
        /\ checkingUserQuotaColumns' = 0
        /\ UNCHANGED <<transform, quotaColumns, users, now, caller, callsMade, deleted>>

\* The awaited promise is fulfilled: the caller builds its statement and
\* sends it
SendStatement(p) ==
    /\ caller[p].pc = "awaiting"
    /\ caller[p].awaits # 0 => checks[caller[p].awaits].state = "fulfilled"
    /\ LET includeQuotaColumns ==
               IF caller[p].awaits = 0 THEN caller[p].include
               ELSE checks[caller[p].awaits].value
       IN caller' = [caller EXCEPT ![p].pc = "statement",
                                   ![p].include = includeQuotaColumns,
                                   ![p].awaits = 0,
                                   ![p].statement =
                                       Statement(caller[p].op, includeQuotaColumns, now)]
    /\ now' = IF TakesDate(caller[p].op) THEN now + 1 ELSE now
    /\ UNCHANGED <<transform, userQuotaColumnsAvailable, checkingUserQuotaColumns,
                   checks, quotaColumns, users, callsMade, deleted>>

\* The database executes the statement and the call returns
Execute(p) ==
    /\ caller[p].pc = "statement"
    /\ LET outcome == Executed(users, caller[p].statement, quotaColumns, now)
           returned == Returned(caller[p].op, outcome)
       IN /\ users' = outcome.table
          /\ caller' = [caller EXCEPT ![p].pc = "idle", ![p].result = returned]
          /\ deleted' = IF caller[p].op.name = "deleteUser"
                           /\ returned = [kind |-> "boolean", value |-> TRUE]
                        THEN deleted \cup {caller[p].op.id}
                        ELSE deleted
    /\ UNCHANGED <<transform, userQuotaColumnsAvailable, checkingUserQuotaColumns,
                   checks, quotaColumns, now, callsMade>>

NextRepo ==
    \/ \E p \in Callers :
          \/ CreateUser(p)
          \/ FindUserList(p)
          \/ FindUserById(p)
          \/ UpdateUser(p)
          \/ DeleteUser(p)
          \/ SendStatement(p)
          \/ Execute(p)
    \/ CheckSettles

SpecRepo == InitRepo /\ [][NextRepo]_vars

(***************************************************************************)
(* Properties.                                                             *)
(***************************************************************************)
\* The call has got past parameter validation: req.messages is an array
Started == pc \notin {"validate"} /\ output # JsUndef

\* The content blocks of message i of the request (none unless an array)
BlocksOf(i) ==
    LET m == ReqMessages[i]
    IN IF "content" \in DOMAIN m /\ m.content.t = "array" THEN m.content.a ELSE <<>>

\* The positions <<i, j>> of the blocks of the given type in the request
BlocksOfType(ty) ==
    IF request.t = "object" /\ Get(request, "messages").t = "array"
    THEN {<<i, j>> \in (1..Len(ReqMessages)) \X (1..MaxBlocks + 1) :
             j <= Len(BlocksOf(i)) /\ BlocksOf(i)[j].type = ty}
    ELSE {}

Block(pos) == BlocksOf(pos[1])[pos[2]]

\* A tool_use block without id or name, or a tool_result block without
\* tool_use_id, somewhere in the messages
HasMalformedToolBlock ==
    \/ \E pos \in BlocksOfType("tool_use") :
          "id" \notin DOMAIN Block(pos) \/ "name" \notin DOMAIN Block(pos)
    \/ \E pos \in BlocksOfType("tool_result") :
          "tool_use_id" \notin DOMAIN Block(pos)

\* C1: when the block loop of a turn that held a tool_use or tool_result
\* block ends, the accumulator of pending plain blocks is empty (no
\* unflushed tail: every text and resolved image block reached the output).
C1_NoUnflushedTail ==
    (pc = "flush" /\ (hasToolUse \/ hasToolResult)) => contentParts = <<>>

\* What a text or image block is pushed as
PlainOut(b) ==
    IF b.type = "text"
    THEN [type |-> "text", text |-> IF "text" \in DOMAIN b THEN b.text ELSE ""]
    ELSE ImagePartOut(ImageUrl(b.source))

\* Output message k is what the input recorded in origin[k] is pushed as
DerivedFrom(k) ==
    LET m == output.messages[k]
        o == origin[k]
        blocks == BlocksOf(o.msg)
    IN IF o.msg = 0 THEN m.role = "system"
       ELSE IF m.content.t = "array"
       THEN /\ Len(m.content.a) = Len(o.parts)
            /\ m.role = ReqMessages[o.msg].role
            /\ \A n \in 1..Len(o.parts) :
                  /\ blocks[o.parts[n]].type \in {"text", "image"}
                  /\ m.content.a[n] = PlainOut(blocks[o.parts[n]])
       ELSE IF o.parts = <<>>
       THEN m = [role |-> ReqMessages[o.msg].role,
                 content |-> ReqMessages[o.msg].content]
       ELSE /\ Len(o.parts) = 1
            /\ blocks[o.parts[1]].type \in {"tool_use", "tool_result"}
            /\ IF blocks[o.parts[1]].type = "tool_use"
               THEN m.tool_calls[1].id = blocks[o.parts[1]].id
               ELSE m.tool_call_id = blocks[o.parts[1]].tool_use_id

\* C2: the output turns are order-consistent with the input: a turn that
\* derives from an earlier input turn precedes one that derives from a later
\* input turn, and within one input turn the output turns, and the blocks
\* inside each flushed content array, are in the order of the blocks they
\* derive from.
C2_OrderPreserved ==
    Started =>
        /\ Len(origin) = Len(output.messages)
        /\ \A k \in 1..Len(origin) : DerivedFrom(k)
        /\ \A k, l \in 1..Len(origin) :
              k < l =>
                 /\ origin[k].msg <= origin[l].msg
                 /\ origin[k].msg = origin[l].msg =>
                       \A a \in 1..Len(origin[k].parts), b \in 1..Len(origin[l].parts) :
                          origin[k].parts[a] < origin[l].parts[b]
        /\ \A k \in 1..Len(origin) :
              \A a, b \in 1..Len(origin[k].parts) :
                 a < b => origin[k].parts[a] < origin[k].parts[b]

\* A returned output with turns from two input turns, one of them a flushed
\* array of two blocks
C2_Witness ==
    /\ pc = "returned"
    /\ \E k, l \in 1..Len(origin) :
          /\ 0 < origin[k].msg
          /\ origin[k].msg < origin[l].msg
          /\ Len(origin[k].parts) >= 2
          /\ Len(origin[l].parts) >= 1

\* C3: when some tool_use block lacks id or name, or some tool_result block
\* lacks tool_use_id, the call never gets past the messages loop and never
\* returns, and it can always take a next step until it has thrown; and a
\* call that throws returns nothing, whatever it had already pushed to
\* output.messages.
C3_MalformedToolBlockFails ==
    /\ HasMalformedToolBlock =>
          pc \notin {"tools", "tool_choice", "params", "return", "returned"}
    /\ HasMalformedToolBlock /\ pc # "thrown" => ENABLED Next
    /\ pc = "thrown" => returnValue = JsUndef /\ errorMsg # ""
    /\ returnValue # JsUndef => pc = "returned" /\ errorMsg = ""

\* The throw for a malformed tool_use comes after messages were pushed
C3_Witness ==
    /\ pc = "thrown"
    /\ errorMsg = ErrToolUse
    /\ HasMalformedToolBlock
    /\ Len(output.messages) >= 2
    /\ returnValue = JsUndef

\* model is absent (undefined, null, or the empty string that !model also
\* rejects) or not a string
ModelRejected == modelArg.t # "string" \/ modelArg = JsStr("")
\* request is absent or not object-shaped (typeof is not "object")
RequestRejected == request.t \notin {"object", "array"}
\* request.messages is absent, not a sequence, or empty
MessagesRejected ==
    \/ request.t # "object"
    \/ "messages" \notin DOMAIN request.o
    \/ request.o.messages.t # "array"
    \/ request.o.messages.a = <<>>

\* C4: the call throws, before any output exists, when model is absent or
\* not a string, else when request is absent or not an object, else when
\* request.messages is absent, not a sequence or empty (the error is that of
\* the first check that fails); a call that passes the three checks and has
\* no malformed tool block never throws and can always take a next step
\* until it has returned.
C4_Validation ==
    /\ pc # "validate" =>
          /\ ModelRejected =>
                pc = "thrown" /\ errorMsg = ErrModel /\ output = JsUndef
          /\ ~ModelRejected /\ RequestRejected =>
                pc = "thrown" /\ errorMsg = ErrRequest /\ output = JsUndef
          /\ ~ModelRejected /\ ~RequestRejected /\ MessagesRejected =>
                pc = "thrown" /\ errorMsg = ErrMessages /\ output = JsUndef
    /\ ~ModelRejected /\ ~RequestRejected /\ ~MessagesRejected
          /\ ~HasMalformedToolBlock =>
             /\ pc # "thrown"
             /\ pc # "returned" => ENABLED Next
             /\ pc = "returned" => returnValue = output /\ output # JsUndef

\* The check of messages rejects an empty array for a valid model
C4_Witness ==
    /\ pc = "thrown"
    /\ errorMsg = ErrMessages
    /\ ~ModelRejected
    /\ request = JsObj([messages |-> JsArr(<<>>)])

\* An output message that carries tool-call data
IsToolTurn(m) == "tool_calls" \in DOMAIN m \/ "tool_call_id" \in DOMAIN m

\* C5: a step that processes a well-formed tool_use or tool_result block
\* while the accumulator holds parts appends exactly two messages, the
\* accumulated parts as one message with the role of the input turn and
\* right after it the tool message, and leaves the accumulator empty; and no
\* output message ever holds both tool-call data and text or image parts.
C5_FlushBeforeTool ==
    /\ [][(/\ pc = "part"
           /\ Part.type \in {"tool_use", "tool_result"}
           /\ Len(contentParts) > 0
           /\ pc' # "thrown")
          => /\ Len(output'.messages) = Len(output.messages) + 2
             /\ SubSeq(output'.messages, 1, Len(output.messages)) = output.messages
             /\ output'.messages[Len(output.messages) + 1]
                   = [role |-> ReqMessages[idx].role, content |-> JsArr(contentParts)]
             /\ IsToolTurn(output'.messages[Len(output.messages) + 2])
             /\ contentParts' = <<>>]_vars
    /\ [](Started =>
            \A k \in 1..Len(output.messages) :
               LET m == output.messages[k]
               IN /\ "tool_calls" \in DOMAIN m => m.content = JsNull
                  /\ "tool_call_id" \in DOMAIN m =>
                        m.content.t = "string" /\ "tool_calls" \notin DOMAIN m
                  /\ m.content.t = "array" =>
                        /\ ~IsToolTurn(m)
                        /\ \A n \in 1..Len(m.content.a) :
                              m.content.a[n].type \in {"text", "image_url"})

\* A returned output where the parts of a user turn were flushed right
\* before the tool message of the same turn
C5_Witness ==
    /\ pc = "returned"
    /\ \E k \in 1..(Len(output.messages) - 1) :
          /\ output.messages[k].content.t = "array"
          /\ output.messages[k].role = "user"
          /\ Len(output.messages[k].content.a) >= 2
          /\ IsToolTurn(output.messages[k + 1])
          /\ origin[k].msg = origin[k + 1].msg

\* The indices of the output messages pushed for the block at pos
TurnsFor(pos) ==
    {k \in 1..Len(origin) : origin[k] = [msg |-> pos[1], parts |-> <<pos[2]>>]}

\* C6: in a returned output every tool_use block has exactly one message of
\* its own, {role: "assistant", content: null, tool_calls: [one call]} with
\* the block's id and name and the JSON text of its input ("{}" without
\* input); the messages with tool_calls are as many as the tool_use blocks
\* and each holds one call.
C6_ToolUseTurns ==
    pc = "returned" =>
        /\ \A pos \in BlocksOfType("tool_use") :
              /\ Cardinality(TurnsFor(pos)) = 1
              /\ \A k \in TurnsFor(pos) :
                    returnValue.messages[k] =
                       [role |-> "assistant", content |-> JsNull,
                        tool_calls |->
                           << [id |-> Block(pos).id, type |-> "function",
                               function |->
                                  [name |-> Block(pos).name,
                                   arguments |->
                                      IF "input" \in DOMAIN Block(pos)
                                      THEN JSONStringify(Block(pos).input)
                                      ELSE "{}"]] >>]
        /\ Cardinality({k \in 1..Len(returnValue.messages) :
                           "tool_calls" \in DOMAIN returnValue.messages[k]})
              = Cardinality(BlocksOfType("tool_use"))
        /\ \A k \in 1..Len(returnValue.messages) :
              "tool_calls" \in DOMAIN returnValue.messages[k] =>
                 Len(returnValue.messages[k].tool_calls) = 1
        /\ \A pos \in BlocksOfType("tool_use") :
              Block(pos) = ToolUseSearch =>
                 \A k \in TurnsFor(pos) :
                    returnValue.messages[k].tool_calls[1] =
                       [id |-> "t1", type |-> "function",
                        function |-> [name |-> "search",
                                      arguments |-> "{\"q\":\"x\"}"]]

\* A returned output for a turn with two tool_use blocks, one without input
C6_Witness ==
    /\ pc = "returned"
    /\ Cardinality(BlocksOfType("tool_use")) >= 2
    /\ \E k \in 1..Len(returnValue.messages) :
          /\ "tool_calls" \in DOMAIN returnValue.messages[k]
          /\ returnValue.messages[k].tool_calls[1].function.arguments = "{}"

RECURSIVE TextsOnly(_)
\* The text of each item of a tool_result content sequence, concatenated;
\* an item that carries no text contributes nothing
TextsOnly(items) ==
    IF items = <<>> THEN ""
    ELSE (IF Head(items).t = "object" /\ "text" \in DOMAIN Head(items).o
          THEN Head(items).o.text ELSE "") \o TextsOnly(Tail(items))

RECURSIVE TextsOrStrings(_)
\* The same, an item that carries no text contributing its string form
TextsOrStrings(items) ==
    IF items = <<>> THEN ""
    ELSE (IF Head(items).t = "object" /\ "text" \in DOMAIN Head(items).o
          THEN Head(items).o.text
          ELSE IF Head(items).t = "string" THEN Head(items).s
          ELSE "[object Object]") \o TextsOrStrings(Tail(items))

\* The tool_result blocks whose content is a string, a sequence or absent
ResultBlocks ==
    {pos \in BlocksOfType("tool_result") :
        "content" \in DOMAIN Block(pos) => Block(pos).content.t \in {"string", "array"}}

\* The tool_result blocks have one tool message each, with the given content
ToolResultTurnsAre(ContentOf(_)) ==
    pc = "returned" =>
        \A pos \in ResultBlocks :
           /\ Cardinality(TurnsFor(pos)) = 1
           /\ \A k \in TurnsFor(pos) :
                 returnValue.messages[k] =
                    [role |-> "tool",
                     content |-> JsStr(ContentOf(Block(pos))),
                     tool_call_id |-> Block(pos).tool_use_id]

ClaimedResultText(b) ==
    IF "content" \notin DOMAIN b THEN ""
    ELSE IF b.content.t = "string" THEN b.content.s
    ELSE TextsOnly(b.content.a)

AmendedResultText(b) ==
    IF "content" \notin DOMAIN b THEN ""
    ELSE IF b.content.t = "string" THEN b.content.s
    ELSE TextsOrStrings(b.content.a)

\* C7 as stated: in a returned output every tool_result block has exactly
\* one message of its own, {role: "tool", tool_call_id: tool_use_id}, whose
\* content is the block's content when a string, the concatenation of the
\* text of each item when a sequence, and "" when absent.
C7_AsStated == ToolResultTurnsAre(ClaimedResultText)

\* C7 amended: the same, where for a sequence the content is the
\* concatenation, in order and without separator, of the text of each item
\* that is an object with a text property and of the string form of every
\* other item (String(item): the item itself for a string, "[object Object]"
\* for an object without text).
C7_ToolResultTurns == ToolResultTurnsAre(AmendedResultText)

\* A returned tool message for a content sequence with items without text
C7_Witness ==
    /\ pc = "returned"
    /\ \E pos \in ResultBlocks :
          /\ Block(pos) = ToolResultMixed
          /\ \E k \in TurnsFor(pos) :
                returnValue.messages[k].content = JsStr("x[object Object]z")

\* The request is a count-tokens probe
IsProbe ==
    \/ "max_tokens" \in DOMAIN request.o /\ request.o.max_tokens = JsNum(0)
    \/ "_isCountTokens" \in DOMAIN request.o /\ request.o["_isCountTokens"] = JsBool(TRUE)

\* C8: the output stream is false for a count-tokens probe (max_tokens is 0
\* or _isCountTokens is set) whatever the stream argument, and is the stream
\* argument for every other request.
C8_StreamOverride ==
    /\ Started => output.stream = (IF IsProbe THEN FALSE ELSE stream)
    /\ pc = "returned" => returnValue.stream = (IF IsProbe THEN FALSE ELSE stream)

\* A probe called with stream = true returns stream = false
C8_Witness ==
    /\ pc = "returned"
    /\ stream = TRUE
    /\ Get(request, "max_tokens") = JsNum(0)
    /\ returnValue.stream = FALSE

\* The output has property f exactly when the request has it, equal
PassedThrough(f) ==
    /\ f \in DOMAIN returnValue <=> f \in DOMAIN request.o
    /\ f \in DOMAIN request.o => returnValue[f] = request.o[f]

\* C9: a returned output carries temperature and top_p exactly when the
\* request has them, with the same value; it carries max_tokens exactly when
\* the request has it, equal to the request's except that 0 becomes 1, so it
\* is never 0.
C9_ScalarPassthrough ==
    pc = "returned" =>
        /\ PassedThrough("temperature")
        /\ PassedThrough("top_p")
        /\ "max_tokens" \in DOMAIN returnValue <=> "max_tokens" \in DOMAIN request.o
        /\ "max_tokens" \in DOMAIN request.o =>
              /\ returnValue.max_tokens =
                    (IF request.o.max_tokens = JsNum(0) THEN JsNum(1)
                     ELSE request.o.max_tokens)
              /\ returnValue.max_tokens # JsNum(0)

\* A returned output for max_tokens 0 and temperature 0 and no top_p
C9_Witness ==
    /\ pc = "returned"
    /\ Get(request, "max_tokens") = JsNum(0)
    /\ returnValue.max_tokens = JsNum(1)
    /\ Get(request, "temperature") = JsNum(0)
    /\ returnValue.temperature = JsNum(0)
    /\ "top_p" \notin DOMAIN returnValue

RECURSIVE FoldedParts(_)
\* The text of every block tagged "text", in order, without separator
FoldedParts(parts) ==
    IF parts = <<>> THEN ""
    ELSE (IF Head(parts).type = "text" /\ "text" \in DOMAIN Head(parts)
          THEN Head(parts).text ELSE "") \o FoldedParts(Tail(parts))

\* The folded system text of the request
Folded ==
    IF "system" \notin DOMAIN request.o THEN ""
    ELSE IF request.o.system.t = "string" THEN request.o.system.s
    ELSE FoldedParts(request.o.system.a)

\* C10: once req.system is handled, the first output message is
\* {role: "system", content: folded text} if and only if the folded text is
\* not empty; no other message is pushed for req.system, so with an empty
\* folded text the first output message derives from req.messages.
C10_SystemFolding ==
    (Started /\ pc \notin {"base", "system"}) =>
        /\ Folded # "" <=> (Len(origin) >= 1 /\ origin[1].msg = 0)
        /\ Folded # "" =>
              output.messages[1] = [role |-> "system", content |-> JsStr(Folded)]
        /\ \A k \in 2..Len(origin) : origin[k].msg >= 1
        /\ pc = "returned" => returnValue.messages = output.messages

\* A returned output whose first message folds a sequence with a block that
\* is not text and an empty segment
C10_Witness ==
    /\ pc = "returned"
    /\ IsArray(Get(request, "system"))
    /\ Len(Get(request, "system").a) = 4
    /\ returnValue.messages[1] = [role |-> "system", content |-> JsStr("AB")]
    /\ Len(returnValue.messages) >= 2

\* The url an image block resolves to, "" when it is skipped: a data URI for
\* a base64 source with data, the url of a url source
ResolvedUrl(b) ==
    IF "source" \notin DOMAIN b THEN ""
    ELSE IF b.source.type = "base64"
    THEN IF "data" \in DOMAIN b.source /\ b.source.data # ""
         THEN "data:" \o (IF "media_type" \in DOMAIN b.source
                          THEN b.source.media_type
                          ELSE "application/octet-stream")
                      \o ";base64," \o b.source.data
         ELSE ""
    ELSE IF b.source.type = "url" /\ "url" \in DOMAIN b.source THEN b.source.url
    ELSE ""

RECURSIVE MappedParts(_)
\* The in-order mapping of the text blocks and resolvable images of a block
\* sequence, every other block skipped
MappedParts(blocks) ==
    IF blocks = <<>> THEN <<>>
    ELSE LET b == Head(blocks)
             rest == MappedParts(Tail(blocks))
         IN IF b.type = "text"
            THEN <<[type |-> "text",
                    text |-> IF "text" \in DOMAIN b THEN b.text ELSE ""]>> \o rest
            ELSE IF b.type = "image" /\ ResolvedUrl(b) # ""
            THEN <<[type |-> "image_url",
                    image_url |-> [url |-> ResolvedUrl(b), detail |-> "auto"]]>>
                 \o rest
            ELSE rest

\* The input turns whose content is a block sequence without tool blocks
PlainTurns ==
    {i \in 1..Len(ReqMessages) :
        /\ "content" \in DOMAIN ReqMessages[i]
        /\ ReqMessages[i].content.t = "array"
        /\ \A j \in 1..Len(BlocksOf(i)) :
              BlocksOf(i)[j].type \notin {"tool_use", "tool_result"}}

\* The indices of the output messages pushed for input turn i
TurnsOfMessage(i) == {k \in 1..Len(origin) : origin[k].msg = i}

\* Every turn of PlainTurns that Needs(i) has exactly one output message,
\* with its role and its mapped parts; the others have none
PlainTurnsMapped(Needs(_)) ==
    pc = "returned" =>
        \A i \in PlainTurns :
           IF Needs(i)
           THEN /\ Cardinality(TurnsOfMessage(i)) = 1
                /\ \A k \in TurnsOfMessage(i) :
                      returnValue.messages[k] =
                         [role |-> ReqMessages[i].role,
                          content |-> JsArr(MappedParts(BlocksOf(i)))]
           ELSE TurnsOfMessage(i) = {}

\* No image_url part with an empty url is in the output
NoEmptyImageUrl ==
    Started =>
        \A k \in 1..Len(output.messages) :
           output.messages[k].content.t = "array" =>
              \A n \in 1..Len(output.messages[k].content.a) :
                 LET part == output.messages[k].content.a[n]
                 IN part.type = "image_url" => part.image_url.url # ""

AnyTurn(i) == TRUE
TurnWithParts(i) == MappedParts(BlocksOf(i)) # <<>>

\* C11 as stated: a turn whose content is a block sequence without tool
\* blocks has exactly one output turn, with the original role and the
\* in-order mapping of its text blocks and resolvable images as content;
\* no image_url part has an empty url.
C11_AsStated == PlainTurnsMapped(AnyTurn) /\ NoEmptyImageUrl

\* C11 amended: such a turn has exactly one output turn, as above, when at
\* least one of its blocks is a text block or a resolvable image, and no
\* output turn at all when every block is skipped or the sequence is empty;
\* no image_url part has an empty url.
C11_PlainTurns == PlainTurnsMapped(TurnWithParts) /\ NoEmptyImageUrl

\* A returned turn that maps a text block and skips an image without source
C11_Witness ==
    /\ pc = "returned"
    /\ \E i \in PlainTurns :
          /\ BlocksOf(i) = <<ImageNoSource, TextA>>
          /\ \E k \in TurnsOfMessage(i) :
                returnValue.messages[k].content = JsArr(<<[type |-> "text", text |-> "a"]>>)

\* req.tools when it is a sequence, <<>> otherwise
InputTools ==
    IF "tools" \in DOMAIN request.o /\ request.o.tools.t = "array"
    THEN request.o.tools.a ELSE <<>>

RECURSIVE WithoutBuiltins(_)
\* The tools that are not the web search built-in, in their order
WithoutBuiltins(tools) ==
    IF tools = <<>> THEN <<>>
    ELSE IF "type" \in DOMAIN Head(tools) /\ Head(tools).type = "web_search_20250305"
    THEN WithoutBuiltins(Tail(tools))
    ELSE <<Head(tools)>> \o WithoutBuiltins(Tail(tools))

\* out is the function tool of the tool definition src
MapsTool(src, out) ==
    /\ out.type = "function"
    /\ DOMAIN out = {"type", "function"}
    /\ DOMAIN out.function \subseteq {"name", "parameters", "description"}
    /\ out.function.name = src.name
    /\ out.function.parameters =
          (IF "input_schema" \in DOMAIN src THEN src.input_schema ELSE JsObj(<<>>))
    /\ "description" \in DOMAIN out.function =>
          /\ "description" \in DOMAIN src
          /\ out.function.description = src.description
    /\ ("description" \in DOMAIN src /\ src.description # "") =>
          "description" \in DOMAIN out.function

\* C12: the output tools list is the input tools list without the entries
\* of type "web_search_20250305", each other entry mapped in its order to
\* {type: "function", function: {name, parameters: input_schema or {},
\* description}}, the description there only when the source has one; its
\* length is the number of the other entries.  (An absent or empty input
\* list leaves the output without a tools property.)
C12_ToolDefinitions ==
    pc = "returned" =>
        LET kept == WithoutBuiltins(InputTools)
            out == IF "tools" \in DOMAIN returnValue THEN returnValue.tools ELSE <<>>
        IN /\ "tools" \in DOMAIN returnValue <=> InputTools # <<>>
           /\ Len(out) = Len(kept)
           /\ Len(out) = Cardinality({n \in 1..Len(InputTools) :
                                        InputTools[n] \notin {WebSearchTool}})
           /\ \A n \in 1..Len(kept) : MapsTool(kept[n], out[n])

\* A returned tools list of two entries for an input of three with the
\* built-in between them
C12_Witness ==
    /\ pc = "returned"
    /\ InputTools = <<SearchTool, WebSearchTool, PingTool>>
    /\ Len(returnValue.tools) = 2
    /\ "description" \in DOMAIN returnValue.tools[1].function
    /\ "description" \notin DOMAIN returnValue.tools[2].function

\* output.tool_choice is v, or is not set when v is JsUndef
ToolChoiceIs(v) ==
    IF v = JsUndef THEN "tool_choice" \notin DOMAIN returnValue
    ELSE "tool_choice" \in DOMAIN returnValue /\ returnValue.tool_choice = v

\* The mapping of an object tool_choice
ObjectChoice(o) ==
    IF "type" \in DOMAIN o /\ o.type = "auto" THEN JsStr("auto")
    ELSE IF "type" \in DOMAIN o /\ o.type = "any" THEN JsStr("required")
    ELSE IF "type" \in DOMAIN o /\ o.type = "tool"
            /\ "name" \in DOMAIN o /\ o.name # ""
    THEN JsObj([type |-> "function", function |-> [name |-> o.name]])
    ELSE JsUndef

\* The call returns, with the mapping of tool_choice where a string maps to
\* OfString(string)
ToolChoiceMapped(OfString(_)) ==
    /\ pc = "returned" =>
          LET tc == Get(request, "tool_choice")
          IN IF tc.t = "string" THEN ToolChoiceIs(OfString(tc))
             ELSE IF tc.t = "object" THEN ToolChoiceIs(ObjectChoice(tc.o))
             ELSE ToolChoiceIs(JsUndef)
    /\ (~ModelRejected /\ request \in {c.request : c \in ToolChoiceCalls}) =>
          pc # "thrown"

Verbatim(str) == str
VerbatimUnlessEmpty(str) == IF str = JsStr("") THEN JsUndef ELSE str

\* C13 as stated: a string tool_choice passes through verbatim; an object
\* maps by type, "auto" to "auto", "any" to "required", "tool" with a name to
\* {type: "function", function: {name}}; "tool" without a name and any other
\* type leave the output without tool_choice, and no error is raised.
C13_AsStated == ToolChoiceMapped(Verbatim)

\* C13 amended: the same, where the string that passes through verbatim is
\* a non-empty string; an empty string leaves the output without
\* tool_choice.
C13_ToolChoice == ToolChoiceMapped(VerbatimUnlessEmpty)

\* A returned output with tool_choice "required" for {type: "any"}
C13_Witness ==
    /\ pc = "returned"
    /\ Get(request, "tool_choice") = JsObj([type |-> "any"])
    /\ returnValue.tool_choice = JsStr("required")

\* C14: a call made again with the same (model, request, stream) ends as the
\* first one did, with the same returned value or the same error, whatever
\* NODE_ENV was in either call; the flag decides only what is logged.
C14_EnvIndependent ==
    /\ (run = 2 /\ pc \in {"returned", "thrown"}) => Outcome = firstOutcome
    /\ nodeEnv # "development" => debugLog = <<>>

\* Two ended runs of a call that turns blocks into turns, one of which logged
\* the development diagnostics and the other did not
C14_Witness ==
    /\ run = 2
    /\ pc = "returned"
    /\ firstLog # debugLog
    /\ Len(firstLog) + Len(debugLog) > 1
    /\ Len(returnValue.messages) > 1
    /\ Outcome = firstOutcome

(***************************************************************************)
(* Properties of the user repository, under SpecRepo.                      *)
(***************************************************************************)
\* The step in which the statement of caller p is executed and its call
\* returns
Executes(p) == caller[p].pc = "statement" /\ caller'[p].pc = "idle"

\* The operations that await the availability check
Checked == {"createUser", "findUserList", "findUserById", "updateUser"}

\* The users a call returned
UsersOf(result) ==
    IF result.kind = "user" THEN {result.user}
    ELSE IF result.kind = "users" THEN {result.users[i] : i \in 1..Len(result.users)}
    ELSE {}

\* The value a quota property of a returned user has for the stored value v:
\* null for null, the number for its decimal string
ReadAs(v, stored) ==
    IF stored = JsNull THEN v = JsNull
    ELSE IF stored.t = "string" THEN v.t = "number" /\ NumToString(v.n) = stored.s
    ELSE v = stored

C16_SingleFlight ==
    /\ [](/\ Len(checks) <= 1
          /\ \A p \in Callers :
                (caller[p].op.name \in Checked
                   /\ (caller[p].pc = "awaiting" => caller[p].awaits = 0)) =>
                   userQuotaColumnsAvailable = JsBool(caller[p].include)
          /\ userQuotaColumnsAvailable = JsNull =>
                \A k \in 1..Len(checks) :
                    checks[k].state = "pending" /\ checkingUserQuotaColumns = k
          /\ userQuotaColumnsAvailable # JsNull =>
                /\ checkingUserQuotaColumns = 0
                /\ \A k \in 1..Len(checks) :
                      /\ checks[k].state = "fulfilled"
                      /\ userQuotaColumnsAvailable = JsBool(checks[k].value)
                      /\ checks[k].threw => ~checks[k].value)
    /\ [][userQuotaColumnsAvailable # JsNull =>
             UNCHANGED <<userQuotaColumnsAvailable, checks>>]_vars

\* Two callers arrived while the query was in flight; it has come back and
\* both are about to go on with its result
C16_Witness ==
    /\ Len(checks) = 1
    /\ checks[1].state = "fulfilled"
    /\ \A p \in Callers : caller[p].pc = "awaiting" /\ caller[p].awaits = 1

\* C17: once deleteUser(id) has returned true the row stays deleted;
\* findUserById(id) returns null, findUserList returns no user with that id,
\* updateUser(id, data) returns null and leaves the table as it is, and
\* deleteUser(id) returns false and leaves the table as it is.  deleteUser
\* returns true only for a row that exists and was not deleted.
C17_SoftDelete ==
    /\ [](\A id \in deleted : id \in 1..Len(users) /\ users[id].deletedAt # JsNull)
    /\ [][\A p \in Callers :
            Executes(p) =>
               LET o == caller[p].op
                   r == caller'[p].result
               IN /\ (o.name = "findUserList") =>
                        /\ r.kind = "users"
                        /\ \A u \in UsersOf(r) : u.id \notin deleted
                  /\ (o.name \in {"findUserById", "updateUser"} /\ o.id \in deleted) =>
                        r.kind = "null" /\ users' = users
                  /\ (o.name = "deleteUser" /\ o.id \in deleted) =>
                        r = [kind |-> "boolean", value |-> FALSE] /\ users' = users
                  /\ (o.name = "deleteUser" /\ r = [kind |-> "boolean", value |-> TRUE]) =>
                        /\ o.id \in 1..Len(users)
                        /\ users[o.id].deletedAt = JsNull
                        /\ users'[o.id].deletedAt # JsNull]_vars

\* deleteUser(id) has returned true and a call made on the same id by the
\* other caller has found no row
C17_Witness ==
    \E p, q \in Callers :
        /\ caller[p].pc = "idle"
        /\ caller[p].op.name = "deleteUser"
        /\ caller[p].result = [kind |-> "boolean", value |-> TRUE]
        /\ caller[q].pc = "idle"
        /\ caller[q].op.name \in {"findUserById", "updateUser", "deleteUser"}
        /\ caller[q].op.id = caller[p].op.id
        /\ caller[q].result.kind \in {"null", "boolean"}
        /\ caller[q].result # caller[p].result
        /\ q # p

====
